---- MODULE Spec2Model ----
(***************************************************************************)
(* Model of the bip340-key-pair library: PrivateKey / PrivateKeyUtils      *)
(* (src/src/private-key.ts) and PublicKey / PublicKeyUtils                 *)
(* (src/src/public-key.ts).                                                *)
(*                                                                         *)
(* Uint8Arrays are sequences of bytes (0..255), 1-indexed, so that the     *)
(* JavaScript slice(1, 33) is SubSeq(s, 2, 33).  Arrays that the caller    *)
(* can reach live in `heap`; a key object refers to such an array by its   *)
(* address, which is what makes aliasing and defensive copies observable.  *)
(*                                                                         *)
(* Byte lengths (32, 33, 34, 65) are the program's.  The curve constants   *)
(* of constants.ts are scaled down: the model uses the curve               *)
(* y^2 = x^3 + 7 over the prime field p = 967 (p = 3 mod 4), whose group   *)
(* has prime order n = 907 < p, the same shape as secp256k1, and every     *)
(* integer stays below 2^31.                                               *)
(***************************************************************************)
EXTENDS Integers, Sequences, FiniteSets, TLC

\* ------------------------------------------------------------ bounds ----

\* Largest of the small scalar values the caller tries (0..MaxSmall).
MaxSmall == 2

\* Largest number of calls (constructions, getter reads, writes into an
\* array) the caller makes in one run.
MaxCalls == 3

\* --------------------------------------------------------- constants ----

\* CURVE.p, CURVE.n, CURVE.b of constants.ts (scaled field, see above).
CURVE_p == 967

CURVE_n == 907

CURVE_b == 7

\* BIP340_MULTIKEY_PREFIX of constants.ts: the fixed 2-byte multikey prefix.
BIP340_MULTIKEY_PREFIX == <<225, 74>>

\* Byte length of a private key and of an x-only public key.
KEY_LEN == 32

\* Byte length of a compressed public key.
COMPRESSED_LEN == 33

\* Byte length of the decoded multikey payload.
MULTIKEY_LEN == 34

\* Byte length of an uncompressed point.
UNCOMPRESSED_LEN == 65

\* Number of hex digits y is padded to in liftX.
HEX_PAD == 64

\* Radix of the base58btc alphabet and index of its letter 'z', which is also
\* the multibase prefix character of base58btc.
BASE58 == 58

CHAR_z == 57

Byte == 0..255

\* ------------------------------------------------- byte/hex helpers ----

\* Array(n).fill(0)
Zeros(k) == [i \in 1..k |-> 0]

\* Buffer.from(bytes).toString('hex'): two hex digits (0..15) per byte.
ToHex(bytes) ==
    [i \in 1..(2 * Len(bytes)) |->
        IF i % 2 = 1 THEN bytes[(i + 1) \div 2] \div 16
        ELSE bytes[i \div 2] % 16]

\* Buffer.from(hex, 'hex'): one byte per pair of hex digits.
FromHex(hex) ==
    [i \in 1..(Len(hex) \div 2) |-> (hex[(2 * i) - 1] * 16) + hex[2 * i]]

\* `second`, once `first` has been evaluated: it keeps the evaluation of a
\* long reduction from nesting one level per element.
Then(first, second) == IF first = first THEN second ELSE second

\* F applied to the value of v, v evaluated once: `const x = v; F(x)`.
Bind(v, F(_)) == CHOOSE y \in {F(x) : x \in {v}} : TRUE

\* The left-to-right reduction acc := acc * radix + digit over digits lo..hi
\* of a numeral.  Reducing lo..hi is reducing mid+1..hi from the result of
\* reducing lo..mid, which keeps the recursion shallow.
RECURSIVE Numeral(_, _, _, _, _)
Numeral(digits, radix, lo, hi, acc) ==
    IF lo > hi THEN acc
    ELSE IF lo = hi THEN (acc * radix) + digits[lo]
    ELSE LET mid  == (lo + hi) \div 2
             left == Numeral(digits, radix, lo, mid, acc)
         IN  Then(left, Numeral(digits, radix, mid + 1, hi, left))

\* BigInt('0x' + hex)
ParseHex(hex) == Numeral(hex, 16, 1, Len(hex), 0)

\* bigint.toString(16) for a non-negative bigint: no leading zeros, "0" for 0.
RECURSIVE HexDigits(_)
HexDigits(v) == IF v < 16 THEN <<v>> ELSE HexDigits(v \div 16) \o <<v % 16>>

\* String.prototype.padStart(width, '0')
PadStart(s, width) == Zeros(width - Len(s)) \o s

\* ------------------------------------------------ operation outcomes ----

\* An operation either returns a value or throws an error with a code.
Return(v) == [ok |-> TRUE, code |-> "", val |-> v]

Throw(c) == [ok |-> FALSE, code |-> c, val |-> <<>>]

\* ------------------------------------------------- PrivateKeyUtils ----

\* bytes.reduce((acc, byte) => (acc << 8n) | BigInt(byte), 0n)
toSecret(bytes) == Numeral(bytes, 256, 1, Len(bytes), 0)

\* Byte-wise comparison of two arrays of one length: -1, 0 or 1, decided
\* by the first byte in which they differ.
CompareBytes(a, b) ==
    LET differ == {i \in 1..Len(a) : a[i] # b[i]} IN
    IF differ = {} THEN 0
    ELSE LET first == CHOOSE i \in differ : \A j \in differ : i <= j
         IN  IF a[first] < b[first] THEN -1 ELSE 1

\* secret >> BigInt(8 * k): arithmetic shift right by k bytes.
RECURSIVE ShiftRightBytes(_, _)
ShiftRightBytes(v, k) ==
    IF k = 0 \/ v = 0 \/ v = -1 THEN v ELSE ShiftRightBytes(v \div 256, k - 1)

\* Uint8Array.from({ length: 32 }, (_, i) => Number(secret >> 8*(31-i) & 0xff))
toBytesRaw(secret) ==
    [i \in 1..KEY_LEN |-> ShiftRightBytes(secret, KEY_LEN - i) % 256]

\* tinysecp.isPrivate: 32 bytes, not all zero, below the group order.
isPrivate(bytes) ==
    /\ Len(bytes) = KEY_LEN
    /\ CompareBytes(bytes, Zeros(KEY_LEN)) > 0
    /\ CompareBytes(bytes, toBytesRaw(CURVE_n)) < 0

\* Variant of toBytes without the isPrivate test.
toBytes_NoRangeCheck(secret) == Return(toBytesRaw(secret))

\* PrivateKeyUtils.toBytes: the 32 bytes, tested with tinysecp.isPrivate and
\* returned in a new array.
toBytes(secret) ==
    IF ~isPrivate(toBytesRaw(secret))
    THEN Throw("SET_PRIVATE_KEY_ERROR")
    ELSE Return(toBytesRaw(secret))

\* -------------------------------------------------- PublicKeyUtils ----

\* while (exp > 0n) { if (exp & 1n) result = result*base % mod;
\*                    base = base*base % mod; exp >>= 1n }
RECURSIVE modPowLoop(_, _, _, _)
modPowLoop(result, base, exp, mod) ==
    IF exp > 0
    THEN modPowLoop(IF exp % 2 = 1 THEN (result * base) % mod ELSE result,
                    (base * base) % mod, exp \div 2, mod)
    ELSE result

modPow(base, exp, mod) == modPowLoop(1, base, exp, mod)

\* Variant of sqrtMod with the exponent (p - 1) / 4: its result is not a
\* square root.
sqrtMod_WrongExponent(a, p) == modPow(a, (p - 1) \div 4, p)

sqrtMod(a, p) == modPow(a, (p + 1) \div 4, p)

\* Variant of liftX whose range check lets x = p through.
liftX_AcceptsP(xBytes) ==
    IF Len(xBytes) # KEY_LEN THEN Throw("LIFT_X_ERROR")
    ELSE LET x == ParseHex(ToHex(xBytes)) IN
         IF x <= 0 \/ x > CURVE_p THEN Throw("LIFT_X_ERROR")
         ELSE LET ySquared == ((x * x * x) + CURVE_b) % CURVE_p
                  y        == sqrtMod(ySquared, CURVE_p)
                  yBytes   == FromHex(PadStart(HexDigits(y), HEX_PAD))
              IN  Return(<<4>> \o xBytes \o yBytes)

\* liftX(x): the uncompressed point 0x04 || x || y of an x-coordinate.
liftX(xBytes) ==
    IF Len(xBytes) # KEY_LEN THEN Throw("LIFT_X_ERROR")
    ELSE LET x == ParseHex(ToHex(xBytes)) IN
         IF x <= 0 \/ x >= CURVE_p THEN Throw("LIFT_X_ERROR")
         ELSE LET ySquared == ((x * x * x) + CURVE_b) % CURVE_p
                  y        == sqrtMod(ySquared, CURVE_p)
                  yBytes   == FromHex(PadStart(HexDigits(y), HEX_PAD))
              IN  Return(<<4>> \o xBytes \o yBytes)

\* ------------------------------ tiny-secp256k1: pointFromScalar ----

\* The generator of the curve group, a point of order CURVE_n with even y.
CURVE_Gx == 2

CURVE_Gy == 54

\* The point at infinity and the affine point (x, y).
Infinity == [inf |-> TRUE, x |-> 0, y |-> 0]

Point(x, y) == [inf |-> FALSE, x |-> x, y |-> y]

CURVE_G == Point(CURVE_Gx, CURVE_Gy)

\* 1 / a in the field, a not a multiple of p.
InvMod(a) == modPow(a % CURVE_p, CURVE_p - 2, CURVE_p)

\* The sum of two points of the curve.
PointAdd(P, Q) ==
    IF P.inf THEN Q
    ELSE IF Q.inf THEN P
    ELSE IF P.x = Q.x /\ (P.y + Q.y) % CURVE_p = 0 THEN Infinity
    ELSE LET lambda ==
                 IF P = Q
                 THEN (((3 * P.x * P.x) % CURVE_p) * InvMod(2 * P.y))
                          % CURVE_p
                 ELSE (((Q.y - P.y) % CURVE_p) * InvMod(Q.x - P.x))
                          % CURVE_p
             x == ((lambda * lambda) - P.x - Q.x) % CURVE_p
             y == ((lambda * ((P.x - x) % CURVE_p)) - P.y) % CURVE_p
         IN  Point(x, y)

\* d * P by doubling and adding.
RECURSIVE ScalarMult(_, _)
ScalarMult(d, P) ==
    IF d = 0 THEN Infinity
    ELSE Bind(ScalarMult(d \div 2, P), LAMBDA half :
         Bind(PointAdd(half, half), LAMBDA doubled :
              IF d % 2 = 1 THEN PointAdd(doubled, P) ELSE doubled))

\* The 33-byte compressed encoding of an affine point.
CompressPoint(P) == <<2 + (P.y % 2)>> \o toBytesRaw(P.x)

\* tinysecp.pointFromScalar(d, true): a TypeError for bytes that are not a
\* private key, else the compressed point d * G (null for the point at
\* infinity, which no private key gives).
pointFromScalar(d) ==
    IF ~isPrivate(d) THEN Throw("TypeError")
    ELSE Bind(toSecret(d), LAMBDA scalar :
         Bind(ScalarMult(scalar, CURVE_G), LAMBDA P :
              IF P.inf THEN Return(<<>>) ELSE Return(CompressPoint(P))))

\* PrivateKeyUtils.computePublicKey
computePublicKey(privateKeyBytes) ==
    Bind(pointFromScalar(privateKeyBytes), LAMBDA publicKeyBytes :
         IF ~publicKeyBytes.ok THEN publicKeyBytes
         ELSE IF publicKeyBytes.val = <<>>
         THEN Throw("COMPUTE_PUBLIC_KEY_ERROR")
         ELSE IF Len(publicKeyBytes.val) # COMPRESSED_LEN
         THEN Throw("COMPUTE_PUBLIC_KEY_ERROR")
         ELSE publicKeyBytes)

\* PrivateKeyUtils.fromSecret: the bytes it hands to new PrivateKey.  The
\* hex text of a negative secret starts with '-'.  Cut into pairs after
\* padding, a pair "-d" parses to the negative number -d, which the typed
\* array stores modulo 256, and a pair "0-" parses to 0.
fromSecretBytes(secret) ==
    IF secret >= 0
    THEN FromHex(PadStart(HexDigits(secret), HEX_PAD))
    ELSE LET digits == HexDigits(0 - secret)
             width  == Len(digits) + 1
             \* pairs are counted from the left of the padded text
             signAt == (HEX_PAD - width) + 1
             padded == PadStart(digits, HEX_PAD)
         IN  [i \in 1..KEY_LEN |->
                 IF (2 * i) - 1 = signAt
                 THEN (0 - padded[2 * i]) % 256
                 ELSE IF 2 * i = signAt THEN 0
                 ELSE IF (2 * i) - 1 > signAt
                 THEN (padded[(2 * i) - 1] * 16) + padded[2 * i]
                 ELSE 0]

\* ------------------------------------------- base58btc and sha256 ----

Reverse(s) == [i \in 1..Len(s) |-> s[(Len(s) - i) + 1]]

\* Number of leading zero digits of a numeral.
LeadingZeros(s) ==
    LET nonzero == {i \in 1..Len(s) : s[i] # 0} IN
    IF nonzero = {} THEN Len(s)
    ELSE (CHOOSE i \in nonzero : \A j \in nonzero : i <= j) - 1

\* The base-x inner loop over digits lo..hi of the number written so far
\* (least significant first): digit := (carry + m * digit) % to, the carry
\* moving on to the next digit.  st is [out, carry].
RECURSIVE MulAddRange(_, _, _, _, _, _)
MulAddRange(digits, m, to, lo, hi, st) ==
    IF lo > hi THEN st
    ELSE IF lo = hi
    THEN LET t == st.carry + (m * digits[lo])
         IN  [out |-> Append(st.out, t % to), carry |-> t \div to]
    ELSE LET mid  == (lo + hi) \div 2
             left == MulAddRange(digits, m, to, lo, mid, st)
         IN  Then(left, MulAddRange(digits, m, to, mid + 1, hi, left))

\* The digits a carry left over extends the number by.
RECURSIVE CarryDigits(_, _)
CarryDigits(carry, to) ==
    IF carry = 0 THEN <<>>
    ELSE <<carry % to>> \o CarryDigits(carry \div to, to)

MulAdd(digits, m, carry, to) ==
    LET st == MulAddRange(digits, m, to, 1, Len(digits),
                          [out |-> <<>>, carry |-> carry])
    IN  st.out \o CarryDigits(st.carry, to)

\* The base-x outer loop: every source digit lo..hi (radix `from`, most
\* significant first) is carried into the digits of radix `to`.
RECURSIVE BaseConvert(_, _, _, _, _, _)
BaseConvert(source, lo, hi, digits, from, to) ==
    IF lo > hi THEN digits
    ELSE IF lo = hi THEN MulAdd(digits, from, source[lo], to)
    ELSE LET mid  == (lo + hi) \div 2
             left == BaseConvert(source, lo, mid, digits, from, to)
         IN  Then(left, BaseConvert(source, mid + 1, hi, left, from, to))

\* base-x encode: leading zero bytes become leading '1's (digit 0), the rest
\* is the base-58 numeral of the remaining bytes.
BaseXEncode(source) ==
    LET zeroes == LeadingZeros(source)
        rest   == SubSeq(source, zeroes + 1, Len(source))
    IN  Zeros(zeroes) \o Reverse(BaseConvert(rest, 1, Len(rest), <<>>, 256, BASE58))

\* base-x decode: the inverse walk, leading '1's become leading zero bytes.
BaseXDecode(str) ==
    LET zeroes == LeadingZeros(str)
        rest   == SubSeq(str, zeroes + 1, Len(str))
    IN  Zeros(zeroes) \o Reverse(BaseConvert(rest, 1, Len(rest), <<>>, BASE58, 256))

\* base58btc.encode: the multibase prefix 'z' followed by the base-58 text.
\* A string is the sequence of the alphabet indices of its characters.
base58btc_encode(bytes) == <<CHAR_z>> \o BaseXEncode(bytes)

\* base58btc.decode: throws unless the text starts with 'z' and every other
\* character is in the alphabet.
base58btc_decode(str) ==
    IF str = <<>> \/ Head(str) # CHAR_z THEN Throw("Error")
    ELSE IF \E i \in 2..Len(str) : str[i] \notin 0..(BASE58 - 1)
    THEN Throw("Error")
    ELSE Return(BaseXDecode(Tail(str)))

\* sha256 as an ideal hash: two digests are equal exactly when the hashed
\* messages are.  DigestHex is Buffer.from(digest).toString('hex').
sha256(msg) == [digestOf |-> msg]

DigestHex(digest) == [hexOf |-> digest]

\* BIP340_MULTIKEY_PREFIX_HASH of constants.ts: the hex SHA-256 digest of the
\* fixed prefix.
BIP340_MULTIKEY_PREFIX_HASH == DigestHex(sha256(BIP340_MULTIKEY_PREFIX))

\* ------------------------------------------ PublicKey multikey codec ----

\* Variant of encode that writes the prefix after the x-coordinate.
encodeX_PrefixLast(xCoordinate) ==
    IF Len(xCoordinate) # KEY_LEN THEN Throw("ENCODE_PUBLIC_KEY_ERROR")
    ELSE Return(base58btc_encode(xCoordinate \o BIP340_MULTIKEY_PREFIX))

\* PublicKey.encode with the x-coordinate it reads through the x getter.
encodeX(xCoordinate) ==
    IF Len(xCoordinate) # KEY_LEN THEN Throw("ENCODE_PUBLIC_KEY_ERROR")
    ELSE Return(base58btc_encode(BIP340_MULTIKEY_PREFIX \o xCoordinate))

\* Variant of decode that does not compare the prefix hash.
decodeMultibase_AnyPrefix(str) ==
    LET decoded == base58btc_decode(str) IN
    IF ~decoded.ok THEN decoded
    ELSE IF Len(decoded.val) # MULTIKEY_LEN
    THEN Throw("DECODE_PUBLIC_KEY_ERROR")
    ELSE Return(decoded.val)

\* The body of PublicKey.decode applied to the multibase string it reads
\* through the multibase getter.
decodeMultibase(str) ==
    LET decoded == base58btc_decode(str) IN
    IF ~decoded.ok THEN decoded
    ELSE LET multibase  == decoded.val
             prefix     == SubSeq(multibase, 1, 2)
             prefixHash == DigestHex(sha256(prefix))
         IN  IF Len(multibase) # MULTIKEY_LEN
             THEN Throw("DECODE_PUBLIC_KEY_ERROR")
             ELSE IF prefixHash # BIP340_MULTIKEY_PREFIX_HASH
             THEN Throw("DECODE_PUBLIC_KEY_ERROR")
             ELSE Return(multibase)

\* ------------------------------------------------------------- state ----

VARIABLES
    seed,     \* the scalar the caller's arrays and secrets are built from
    heap,     \* the Uint8Arrays allocated so far, by address
    src,      \* per address: "input" (made by the caller), "getter"
              \* (returned to the caller) or "internal" (made by an object)
    mutated,  \* addresses the caller has written into
    pubs,     \* the PublicKey objects, each its private field _bytes
    privs,    \* the PrivateKey objects, each its fields _bytes and _secret
    ctorArg,  \* per key object: the address of the array it was built from
              \* (0 for a key built from a bigint)
    pairs,    \* the KeyPair objects, each its fields _privateKey, _publicKey
    ret,      \* outcome of the last call
    calls     \* number of calls made so far

vars == <<seed, heap, src, mutated, pubs, privs, ctorArg, pairs, ret, calls>>

\* A JavaScript value held in a field: a reference to a Uint8Array, or a
\* bigint.
ArrayRef(a) == [k |-> "array", a |-> a, v |-> 0]

BigIntVal(n) == [k |-> "bigint", a |-> 0, v |-> n]

IsArray(val) == val.k = "array"

\* A field's value with the array it refers to looked up in heap h.
Resolve(h, val) ==
    [k |-> val.k, b |-> IF val.k = "array" THEN h[val.a] ELSE <<>>,
     v |-> val.v]

\* `this` of a method call on a PublicKey / PrivateKey object o: its fields
\* as they are while the arrays hold what heap h says.
PubThis(h, o) == [_bytes |-> Resolve(h, o._bytes)]

PrivThis(h, o) ==
    [_bytes |-> Resolve(h, o._bytes), _secret |-> Resolve(h, o._secret)]

\* !value for the values above: only the bigint 0n is falsy.
Falsy(val) == val.k = "bigint" /\ val.v = 0

NoRet == [op |-> "none", ok |-> TRUE, code |-> "", val |-> 0,
          arg |-> <<>>, sec |-> 0]

Outcome(op, r, val, arg, sec) ==
    [op |-> op, ok |-> r.ok, code |-> r.code, val |-> val,
     arg |-> arg, sec |-> sec]

\* ------------------------------------------------- caller's inputs ----

\* The 32-byte big-endian array of a small scalar.
Be32(v) == Zeros(KEY_LEN - 2) \o <<v \div 256, v % 256>>

\* Scalars the caller builds keys from: small ones and the values around
\* the group order.
KeyVals == (0..MaxSmall) \cup {CURVE_n - 1, CURVE_n}

\* Scalars the caller hands to the utilities: those above, the byte
\* boundary, and the values around the field prime.
SampleVals ==
    KeyVals \cup {255, 256} \cup {CURVE_p - 1, CURVE_p, CURVE_p + 1}

\* Arrays the caller passes as key material built from scalar v: x-only,
\* compressed with parity byte 2, 3 or (invalid) 4, and wrong lengths.
KeyShapes(v) ==
    { Be32(v), <<2>> \o Be32(v), <<3>> \o Be32(v), <<4>> \o Be32(v),
      <<>>, Tail(Be32(v)), <<2, 2>> \o Be32(v) }

\* Arrays the caller passes as a private key built from scalar v: 32 bytes,
\* and wrong lengths.
PrivShapes(v) == { Be32(v), <<>>, Tail(Be32(v)), <<0>> \o Be32(v) }

\* Secrets the caller passes, built from scalar v.
SecretShapes(v) == {v, 0 - v}

\* -------------------------------------------------------- PublicKey ----

\* Variant of the PublicKey constructor without the length check: whatever
\* is not 32 bytes long is stored as it is.
PublicKeyCtor_AnyLength(bytes, a) ==
    IF Len(bytes) = KEY_LEN
    THEN [ok |-> TRUE, code |-> "", val |-> [_bytes |-> ArrayRef(a + 1)],
          alloc |-> << <<2>> \o bytes >>]
    ELSE [ok |-> TRUE, code |-> "", val |-> [_bytes |-> ArrayRef(a)],
          alloc |-> <<>>]

\* Variant of the PublicKey constructor that prepends 0x03 to a 32-byte x.
PublicKeyCtor_OddParity(bytes, a) ==
    LET bytelength == Len(bytes) IN
    IF bytelength \notin {KEY_LEN, COMPRESSED_LEN}
    THEN Throw("PUBLIC_KEY_CONSTRUCTOR_ERROR")
    ELSE IF bytelength = KEY_LEN
    THEN [ok |-> TRUE, code |-> "", val |-> [_bytes |-> ArrayRef(a + 1)],
          alloc |-> << <<3>> \o bytes >>]
    ELSE [ok |-> TRUE, code |-> "", val |-> [_bytes |-> ArrayRef(a)],
          alloc |-> <<>>]

\* new PublicKey(bytes), the argument being the array at address a; a 32-byte
\* argument is copied behind a 0x02 into a new array, which gets address a + 1.
PublicKeyCtor(bytes, a) ==
    LET bytelength == Len(bytes) IN
    IF bytelength \notin {KEY_LEN, COMPRESSED_LEN}
    THEN Throw("PUBLIC_KEY_CONSTRUCTOR_ERROR")
    ELSE IF bytelength = KEY_LEN
    THEN [ok |-> TRUE, code |-> "", val |-> [_bytes |-> ArrayRef(a + 1)],
          alloc |-> << <<2>> \o bytes >>]
    ELSE [ok |-> TRUE, code |-> "", val |-> [_bytes |-> ArrayRef(a)],
          alloc |-> <<>>]

\* Variant of the bytes getter that leaves out the parity byte.
PubBytes_WithoutParity(this) == Tail(this._bytes.b)

\* get bytes(): new Uint8Array(this._bytes)
PubBytes(this) == this._bytes.b

\* get x(): this.bytes.slice(1, 33)
PubX(this) == SubSeq(PubBytes(this), 2, COMPRESSED_LEN)

\* get uncompressed(): this.utils.liftX(this.x)
PubUncompressed(this) == liftX(PubX(this))

\* get y(): this.uncompressed.slice(33, 65)
PubY(this) ==
    LET u == PubUncompressed(this) IN
    IF u.ok THEN Return(SubSeq(u.val, COMPRESSED_LEN + 1, UNCOMPRESSED_LEN))
    ELSE u

\* get parity(): this.bytes[0]
PubParity(this) == PubBytes(this)[1]

PubHex(this) == ToHex(PubBytes(this))

PubEquals(this, other) == PubHex(this) = PubHex(other)

PubEncode(this) == encodeX(PubX(this))

\* get multibase(): this.encode()
PubMultibase(this) == PubEncode(this)

\* decode(): base58btc.decode(this.multibase) and the checks on it
PubDecode(this) ==
    LET m == PubMultibase(this) IN
    IF m.ok THEN decodeMultibase(m.val) ELSE m

\* get prefix(): this.decode()
PubPrefix(this) == PubDecode(this)

\* ------------------------------------------------------- PrivateKey ----

\* Variant of the PrivateKey constructor without the length check.
PrivateKeyCtor_AnyLength(seedVal, bytes) ==
    IF Falsy(seedVal) THEN Throw("PRIVATE_KEY_CONSTRUCTOR_ERROR")
    ELSE IF seedVal.k = "bigint" /\ (seedVal.v < 1 \/ seedVal.v >= CURVE_n)
    THEN Throw("PRIVATE_KEY_CONSTRUCTOR_ERROR")
    ELSE Return([_bytes |-> seedVal, _secret |-> seedVal])

\* Variant of the PrivateKey constructor whose range check lets the secret
\* n through.
PrivateKeyCtor_AcceptsN(seedVal, bytes) ==
    IF Falsy(seedVal) THEN Throw("PRIVATE_KEY_CONSTRUCTOR_ERROR")
    ELSE IF IsArray(seedVal) /\ Len(bytes) # KEY_LEN
    THEN Throw("PRIVATE_KEY_CONSTRUCTOR_ERROR")
    ELSE IF seedVal.k = "bigint" /\ (seedVal.v < 1 \/ seedVal.v > CURVE_n)
    THEN Throw("PRIVATE_KEY_CONSTRUCTOR_ERROR")
    ELSE Return([_bytes |-> seedVal, _secret |-> seedVal])

\* new PrivateKey(seed).  seed is never null or undefined once the first
\* check has passed, so `seedBytes ?? toBytes(seedSecret)` is seed itself,
\* and so is `seedSecret ?? toSecret(seedBytes)`.
PrivateKeyCtor(seedVal, bytes) ==
    IF Falsy(seedVal) THEN Throw("PRIVATE_KEY_CONSTRUCTOR_ERROR")
    ELSE IF IsArray(seedVal) /\ Len(bytes) # KEY_LEN
    THEN Throw("PRIVATE_KEY_CONSTRUCTOR_ERROR")
    ELSE IF seedVal.k = "bigint" /\ (seedVal.v < 1 \/ seedVal.v >= CURVE_n)
    THEN Throw("PRIVATE_KEY_CONSTRUCTOR_ERROR")
    ELSE Return([_bytes |-> seedVal, _secret |-> seedVal])

\* get bytes(): new Uint8Array(this._bytes).  With a bigint in _bytes the
\* typed-array constructor converts it to a length and throws a TypeError.
PrivBytes(this) ==
    IF Falsy(this._bytes) THEN Throw("GET_RAW_PRIVATE_KEY_ERROR")
    ELSE IF IsArray(this._bytes) THEN Return(this._bytes.b)
    ELSE Throw("TypeError")

\* get secret(): BigInt(this._secret), after filling _secret from the bytes
\* when it is falsy.  BigInt(array) parses the array's comma-joined text and
\* throws a SyntaxError.
PrivSecret(this) ==
    IF Falsy(this._secret)
    THEN LET b == PrivBytes(this) IN
         IF b.ok THEN Return(toSecret(b.val)) ELSE b
    ELSE IF this._secret.k = "bigint" THEN Return(this._secret.v)
    ELSE Throw("SyntaxError")

PrivHex(this) ==
    LET b == PrivBytes(this) IN IF b.ok THEN Return(ToHex(b.val)) ELSE b

\* The key objects as method receivers in the current state.
Pub(i) == PubThis(heap, pubs[i])

Priv(i) == PrivThis(heap, privs[i])

\* ---------------------------------------------------------- KeyPair ----

\* What a KeyPair field or a constructor argument holds: undefined, a
\* Uint8Array (i its address), or a PrivateKey / PublicKey object (i its
\* index in privs / pubs).
Undefined == [k |-> "undefined", i |-> 0]

BytesAt(a) == [k |-> "bytes", i |-> a]

PrivateKeyObj(i) == [k |-> "PrivateKey", i |-> i]

PublicKeyObj(i) == [k |-> "PublicKey", i |-> i]

\* The objects and arrays of the program, as one value that the steps of a
\* call pass on to each other.
Store ==
    [heap |-> heap, src |-> src, pubs |-> pubs, privs |-> privs,
     ctorArg |-> ctorArg, pairs |-> pairs]

\* Outcome of a step: the store it leaves and the value it returns.
Done(st, v) == [ok |-> TRUE, code |-> "", st |-> st, val |-> v]

Failed(st, c) == [ok |-> FALSE, code |-> c, st |-> st, val |-> Undefined]

\* The caller allocates an array holding b; the value is its reference.
AllocInput(st, b) ==
    Done([st EXCEPT !.heap = Append(@, b), !.src = Append(@, "input")],
         BytesAt(Len(st.heap) + 1))

\* new PrivateKey(bytes), bytes the array at address a.
StNewPrivateKey(st, a) ==
    LET r == PrivateKeyCtor(ArrayRef(a), st.heap[a]) IN
    IF ~r.ok THEN Failed(st, r.code)
    ELSE Done([st EXCEPT !.privs = Append(@, r.val),
                         !.ctorArg.priv = Append(@, a)],
              PrivateKeyObj(Len(st.privs) + 1))

\* Variant of computePublicKey() that makes the PublicKey from the private
\* key's own bytes, taken as an x-coordinate.
StComputePublicKey_FromOwnBytes(st, i) ==
    Bind(PrivBytes(PrivThis(st.heap, st.privs[i])), LAMBDA bytes :
    IF ~bytes.ok THEN Failed(st, bytes.code)
    ELSE Bind(PublicKeyCtor(bytes.val, Len(st.heap) + 1), LAMBDA key :
    IF ~key.ok THEN Failed(st, key.code)
    ELSE Done([st EXCEPT !.heap = Append(@, bytes.val) \o key.alloc,
                         !.src = Append(@, "internal")
                             \o [j \in 1..Len(key.alloc) |-> "internal"],
                         !.pubs = Append(@, key.val),
                         !.ctorArg.pub = Append(@, Len(st.heap) + 1)],
              PublicKeyObj(Len(st.pubs) + 1))))

\* privateKey.computePublicKey(): new PublicKey(computePublicKey(this.bytes))
\* with the point in a new array.
StComputePublicKey(st, i) ==
    Bind(PrivBytes(PrivThis(st.heap, st.privs[i])), LAMBDA bytes :
    IF ~bytes.ok THEN Failed(st, bytes.code)
    ELSE Bind(computePublicKey(bytes.val), LAMBDA point :
    IF ~point.ok THEN Failed(st, point.code)
    ELSE Bind(PublicKeyCtor(point.val, Len(st.heap) + 1), LAMBDA key :
    IF ~key.ok THEN Failed(st, key.code)
    ELSE Done([st EXCEPT !.heap = Append(@, point.val) \o key.alloc,
                         !.src = Append(@, "internal")
                             \o [j \in 1..Len(key.alloc) |-> "internal"],
                         !.pubs = Append(@, key.val),
                         !.ctorArg.pub = Append(@, Len(st.heap) + 1)],
              PublicKeyObj(Len(st.pubs) + 1)))))

\* The assignments of the KeyPair constructor:
\*   this._privateKey = privateKey instanceof Uint8Array
\*                        ? new PrivateKey(privateKey) : privateKey;
\*   this._publicKey = publicKey ?? this._privateKey?.computePublicKey();
StSetKeys(st, privateKey, publicKey) ==
    Bind(IF privateKey.k = "bytes"
         THEN StNewPrivateKey(st, privateKey.i)
         ELSE Done(st, privateKey), LAMBDA priv :
    IF ~priv.ok THEN Failed(st, priv.code)
    ELSE Bind(IF publicKey.k # "undefined" THEN Done(priv.st, publicKey)
              ELSE IF priv.val.k = "undefined" THEN Done(priv.st, Undefined)
              ELSE StComputePublicKey(priv.st, priv.val.i), LAMBDA pub :
    IF ~pub.ok THEN Failed(st, pub.code)
    ELSE Done([pub.st EXCEPT !.pairs =
                  Append(@, [_privateKey |-> priv.val,
                             _publicKey |-> pub.val])],
              Len(st.pairs) + 1)))

\* Variant of the KeyPair constructor without the check for a missing key.
StKeyPair_NoKeyNeeded(st, privateKey, publicKey) ==
    StSetKeys(st, privateKey, publicKey)

\* new KeyPair({ privateKey, publicKey })
StKeyPair(st, privateKey, publicKey) ==
    IF privateKey.k = "undefined" /\ publicKey.k = "undefined"
    THEN Failed(st, "KEYPAIR_CONSTRUCTOR_ERROR")
    ELSE StSetKeys(st, privateKey, publicKey)

\* The last two steps of fromPrivateKey and of generate:
\*   const publicKey = privateKey.computePublicKey();
\*   return new KeyPair({ privateKey, publicKey });
StPairOf(st, privateKey) ==
    IF ~privateKey.ok THEN Failed(st, privateKey.code)
    ELSE Bind(StComputePublicKey(privateKey.st, privateKey.val.i),
              LAMBDA publicKey :
    IF ~publicKey.ok THEN Failed(st, publicKey.code)
    ELSE StKeyPair(publicKey.st, privateKey.val, publicKey.val))

\* KeyPairUtils.fromPrivateKey(data)
StFromPrivateKey(st, data) ==
    Bind(IF data.k = "PrivateKey"
         THEN PrivBytes(PrivThis(st.heap, st.privs[data.i]))
         ELSE Return(st.heap[data.i]), LAMBDA bytes :
    IF ~bytes.ok THEN Failed(st, bytes.code)
    ELSE IF Len(bytes.val) # KEY_LEN
    THEN Failed(st, "FROM_PRIVATE_KEY_ERROR")
    ELSE Bind(IF data.k = "bytes"
              THEN StNewPrivateKey(st, data.i)
              ELSE Done(st, data), LAMBDA privateKey :
         StPairOf(st, privateKey)))

\* KeyPairUtils.generate(), randomBytes() having filled the array at a.
StGenerate(st, a) ==
    Bind(StNewPrivateKey([st EXCEPT !.src[a] = "internal"], a),
         LAMBDA privateKey : StPairOf(st, privateKey))

\* get publicKey(): this._publicKey
PairPublicKey(kp) == kp._publicKey

\* get privateKey(): this._privateKey, or PRIVATE_KEY_ERROR without one
PairPrivateKey(kp) ==
    IF kp._privateKey.k = "undefined"
    THEN [ok |-> FALSE, code |-> "PRIVATE_KEY_ERROR", val |-> Undefined]
    ELSE [ok |-> TRUE, code |-> "", val |-> kp._privateKey]

\* keyPair.publicKey.bytes while the arrays hold what heap h says: the bytes
\* getter of a PublicKey; a Uint8Array has no property `bytes`, so the
\* expression is undefined (code "undefined", no bytes) for one.
PairPublicKeyBytes(h, kp) ==
    LET publicKey == PairPublicKey(kp) IN
    CASE publicKey.k = "PublicKey" ->
             Return(PubBytes(PubThis(h, pubs[publicKey.i])))
      [] publicKey.k = "bytes" ->
             [ok |-> TRUE, code |-> "undefined", val |-> <<>>]
      [] OTHER -> Throw("TypeError")

\* keyPair.privateKey.bytes
PairPrivateKeyBytes(h, kp) ==
    LET privateKey == PairPrivateKey(kp) IN
    IF ~privateKey.ok THEN Throw(privateKey.code)
    ELSE PrivBytes(PrivThis(h, privs[privateKey.val.i]))

\* keyPair.privateKey.computePublicKey(): the bytes of the key it returns.
PairComputedPublicKey(h, kp) ==
    LET bytes == PairPrivateKeyBytes(h, kp) IN
    IF bytes.ok THEN computePublicKey(bytes.val) ELSE bytes

\* ---------------------------------------------------------- actions ----

\* No object has been constructed and no array allocated.
Fresh ==
    /\ heap = <<>>
    /\ src = <<>>
    /\ mutated = {}
    /\ pubs = <<>>
    /\ privs = <<>>
    /\ ctorArg = [pub |-> <<>>, priv |-> <<>>]
    /\ pairs = <<>>
    /\ ret = NoRet
    /\ calls = 0

Init == seed \in KeyVals /\ Fresh

\* A getter hands the caller a new array holding `bytes`.
FreshCopy(bytes) ==
    [heap |-> Append(heap, bytes), src |-> Append(src, "getter"),
     addr |-> Len(heap) + 1]

\* Variant of the bytes getter that returns the key's own array.
PubGetBytes_Alias(o) ==
    [heap |-> heap, src |-> [src EXCEPT ![o._bytes.a] = "getter"],
     addr |-> o._bytes.a]

\* PublicKey get bytes(): return new Uint8Array(this._bytes)
PubGetBytes(o) == FreshCopy(PubBytes(PubThis(heap, o)))

\* PrivateKey get bytes(): return new Uint8Array(this._bytes)
PrivGetBytes(o) == FreshCopy(PrivBytes(PrivThis(heap, o)).val)

\* The caller makes an array b and calls new PublicKey(b).  An array whose
\* construction throws is dropped.
NewPublicKey(b) ==
    /\ calls < MaxCalls
    /\ LET a == Len(heap) + 1
           r == PublicKeyCtor(b, a)
       IN  /\ ret' = Outcome("PublicKey", r,
                             IF r.ok THEN Len(pubs) + 1 ELSE 0, b, 0)
           /\ IF r.ok
              THEN /\ heap' = (heap \o <<b>>) \o r.alloc
                   /\ src' = (src \o <<"input">>)
                                \o [i \in 1..Len(r.alloc) |-> "internal"]
                   /\ pubs' = Append(pubs, r.val)
                   /\ ctorArg' = [ctorArg EXCEPT !.pub = Append(@, a)]
              ELSE UNCHANGED <<heap, src, pubs, ctorArg>>
    /\ calls' = calls + 1
    /\ UNCHANGED <<seed, pairs, mutated, privs>>

\* The caller makes an array b and calls new PrivateKey(b).
NewPrivateKey(b) ==
    /\ calls < MaxCalls
    /\ LET a == Len(heap) + 1
           r == PrivateKeyCtor(ArrayRef(a), b)
       IN  /\ ret' = Outcome("PrivateKey", r,
                             IF r.ok THEN Len(privs) + 1 ELSE 0, b, 0)
           /\ IF r.ok
              THEN /\ heap' = Append(heap, b)
                   /\ src' = Append(src, "input")
                   /\ privs' = Append(privs, r.val)
                   /\ ctorArg' = [ctorArg EXCEPT !.priv = Append(@, a)]
              ELSE UNCHANGED <<heap, src, privs, ctorArg>>
    /\ calls' = calls + 1
    /\ UNCHANGED <<seed, pairs, mutated, pubs>>

\* The caller calls new PrivateKey(s) with a bigint secret s.
NewPrivateKeyFromSecret(s) ==
    /\ calls < MaxCalls
    /\ LET r == PrivateKeyCtor(BigIntVal(s), <<>>)
       IN  /\ ret' = Outcome("PrivateKeySecret", r,
                             IF r.ok THEN Len(privs) + 1 ELSE 0, <<>>, s)
           /\ IF r.ok
              THEN /\ privs' = Append(privs, r.val)
                   /\ ctorArg' = [ctorArg EXCEPT !.priv = Append(@, 0)]
              ELSE UNCHANGED <<privs, ctorArg>>
    /\ calls' = calls + 1
    /\ UNCHANGED <<seed, pairs, heap, src, mutated, pubs>>

\* The caller reads publicKey.bytes.
GetPubBytes(i) ==
    /\ calls < MaxCalls
    /\ LET e == PubGetBytes(pubs[i])
       IN  /\ heap' = e.heap
           /\ src' = e.src
           /\ ret' = Outcome("pub.bytes", Return(0), e.addr, <<>>, i)
    /\ calls' = calls + 1
    /\ UNCHANGED <<seed, pairs, mutated, pubs, privs, ctorArg>>

\* The caller reads publicKey.x, .y or .uncompressed, or calls decode(): a
\* new array, or the error thrown.
GetPubView(i, g) ==
    /\ calls < MaxCalls
    /\ LET o == Pub(i)
           r == CASE g = "pub.x" -> Return(PubX(o))
                  [] g = "pub.y" -> PubY(o)
                  [] g = "pub.uncompressed" -> PubUncompressed(o)
                  [] g = "pub.decode" -> PubDecode(o)
                  [] g = "pub.prefix" -> PubPrefix(o)
           e == FreshCopy(r.val)
       IN  IF r.ok
           THEN /\ heap' = e.heap
                /\ src' = e.src
                /\ ret' = Outcome(g, r, e.addr, <<>>, i)
           ELSE /\ ret' = Outcome(g, r, 0, <<>>, i)
                /\ UNCHANGED <<heap, src>>
    /\ calls' = calls + 1
    /\ UNCHANGED <<seed, pairs, mutated, pubs, privs, ctorArg>>

\* The caller reads privateKey.bytes.
GetPrivBytes(i) ==
    /\ calls < MaxCalls
    /\ LET r == PrivBytes(Priv(i))
           e == PrivGetBytes(privs[i])
       IN  IF r.ok
           THEN /\ heap' = e.heap
                /\ src' = e.src
                /\ ret' = Outcome("priv.bytes", r, e.addr, <<>>, i)
           ELSE /\ ret' = Outcome("priv.bytes", r, 0, <<>>, i)
                /\ UNCHANGED <<heap, src>>
    /\ calls' = calls + 1
    /\ UNCHANGED <<seed, pairs, mutated, pubs, privs, ctorArg>>

\* The heap after a write into the last byte of the array at address a.
WriteByte(h, a) == [h EXCEPT ![a][Len(h[a])] = (@ + 1) % 256]

\* The caller writes into an array it holds.
Mutate(a) ==
    /\ calls < MaxCalls
    /\ src[a] # "internal"
    /\ heap[a] # <<>>
    /\ heap' = WriteByte(heap, a)
    /\ mutated' = mutated \cup {a}
    /\ calls' = calls + 1
    /\ UNCHANGED <<seed, pairs, src, pubs, privs, ctorArg, ret>>

PubViews == {"pub.x", "pub.y", "pub.uncompressed"}

Next ==
    \/ \E b \in KeyShapes(seed) : NewPublicKey(b)
    \/ \E b \in PrivShapes(seed) : NewPrivateKey(b)
    \/ \E s \in SecretShapes(seed) : NewPrivateKeyFromSecret(s)
    \/ \E i \in 1..Len(pubs) : GetPubBytes(i)
    \/ \E i \in 1..Len(pubs), g \in PubViews : GetPubView(i, g)
    \/ \E i \in 1..Len(privs) : GetPrivBytes(i)
    \/ \E a \in 1..Len(heap) : Mutate(a)

Spec == Init /\ [][Next]_vars

\* ------------------------------------ one key, its buffers read and ----
\* ------------------------------------ written by the caller          ----

NextCopies ==
    \/ \E b \in KeyShapes(seed) : calls = 0 /\ NewPublicKey(b)
    \/ \E b \in PrivShapes(seed) : calls = 0 /\ NewPrivateKey(b)
    \/ \E s \in SecretShapes(seed) : calls = 0 /\ NewPrivateKeyFromSecret(s)
    \/ \E i \in 1..Len(pubs) : GetPubBytes(i)
    \/ \E i \in 1..Len(pubs), g \in PubViews : GetPubView(i, g)
    \/ \E i \in 1..Len(privs) : GetPrivBytes(i)
    \/ \E a \in 1..Len(heap) : Mutate(a)

SpecCopies == Init /\ [][NextCopies]_vars

\* ------------------------------------------- key pairs and the ways ----
\* ------------------------------------------- to obtain a private key ----

\* An argument as the caller writes it: nothing, an array holding b, or a
\* key object made before.
ArgUndefined == [k |-> "undefined", b |-> <<>>, i |-> 0]

ArgBytes(b) == [k |-> "bytes", b |-> b, i |-> 0]

ArgObject(k, i) == [k |-> k, b |-> <<>>, i |-> i]

\* The caller allocates the array of a bytes argument; the value is the
\* argument as the callee receives it.
Pass(st, arg) ==
    IF arg.k = "bytes" THEN AllocInput(st, arg.b)
    ELSE Done(st, [k |-> arg.k, i |-> arg.i])

PrivateKeyArgs ==
    {ArgUndefined} \cup {ArgBytes(b) : b \in PrivShapes(seed)}
        \cup {ArgObject("PrivateKey", i) : i \in 1..Len(privs)}

PublicKeyArgs ==
    {ArgUndefined}
        \cup {ArgBytes(b) : b \in {Be32(seed), <<2>> \o Be32(seed)}}
        \cup {ArgObject("PublicKey", i) : i \in 1..Len(pubs)}

\* A call ends: its outcome is recorded, and what it built is kept unless
\* it threw.
Commit(op, r, val, arg, sec) ==
    /\ ret' = Outcome(op, r, IF r.ok THEN val ELSE 0, arg, sec)
    /\ IF r.ok
       THEN /\ heap' = r.st.heap
            /\ src' = r.st.src
            /\ pubs' = r.st.pubs
            /\ privs' = r.st.privs
            /\ ctorArg' = r.st.ctorArg
            /\ pairs' = r.st.pairs
       ELSE UNCHANGED <<heap, src, pubs, privs, ctorArg, pairs>>
    /\ calls' = calls + 1
    /\ UNCHANGED <<seed, mutated>>

\* The caller calls new KeyPair({ privateKey, publicKey }).
NewKeyPair(privateKey, publicKey) ==
    /\ calls < MaxCalls
    /\ \E r \in {Bind(Pass(Store, privateKey), LAMBDA p1 :
                 Bind(Pass(p1.st, publicKey), LAMBDA p2 :
                      StKeyPair(p2.st, p1.val, p2.val)))} :
          Commit("KeyPair", r, Len(pairs) + 1, <<privateKey, publicKey>>, 0)

\* The caller assigns keyPair.publicKey = publicKey, a PublicKey object.
SetPublicKey(k, i) ==
    /\ calls < MaxCalls
    /\ pairs' = [pairs EXCEPT ![k]._publicKey = PublicKeyObj(i)]
    /\ ret' = Outcome("KeyPair.publicKey=", Return(0), k, <<>>, i)
    /\ calls' = calls + 1
    /\ UNCHANGED <<seed, heap, src, mutated, pubs, privs, ctorArg>>

\* The caller calls KeyPairUtils.fromPrivateKey(data).
FromPrivateKey(data) ==
    /\ calls < MaxCalls
    /\ \E r \in {Bind(Pass(Store, data), LAMBDA p :
                      StFromPrivateKey(p.st, p.val))} :
          Commit("fromPrivateKey", r, Len(pairs) + 1, <<data>>, 0)

\* The caller calls KeyPairUtils.generate(); b is what randomBytes() gives.
Generate(b) ==
    /\ calls < MaxCalls
    /\ \E r \in {Bind(AllocInput(Store, b), LAMBDA p :
                      StGenerate(p.st, p.val.i))} :
          Commit("generate", r, Len(pairs) + 1, b, 0)

\* The caller calls PrivateKeyUtils.fromSecret(s) (KeyPairUtils.fromSecret
\* is the same call).
FromSecret(s) ==
    /\ calls < MaxCalls
    /\ \E r \in {Bind(AllocInput(Store, fromSecretBytes(s)), LAMBDA p :
                      StNewPrivateKey(
                          [p.st EXCEPT !.src[p.val.i] = "internal"],
                          p.val.i))} :
          Commit("fromSecret", r, Len(privs) + 1, <<>>, s)

\* The caller calls privateKey.computePublicKey() on a PrivateKey object.
ComputePublicKey(i) ==
    /\ calls < MaxCalls
    /\ \E r \in {StComputePublicKey(Store, i)} :
          Commit("computePublicKey", r, Len(pubs) + 1, <<>>, i)

\* The caller makes at most one PrivateKey and one PublicKey of its own,
\* then key pairs from them or from bytes, and assigns public keys.
NextPairs ==
    \/ \E b \in {Be32(seed)} : privs = <<>> /\ NewPrivateKey(b)
    \/ \E s \in SecretShapes(seed) : privs = <<>> /\ NewPrivateKeyFromSecret(s)
    \/ \E s \in SecretShapes(seed) : privs = <<>> /\ FromSecret(s)
    \/ \E b \in {Be32(seed), <<3>> \o Be32(seed)} :
          pubs = <<>> /\ NewPublicKey(b)
    \/ \E i \in 1..Len(privs) : pairs = <<>> /\ ComputePublicKey(i)
    \/ \E privateKey \in PrivateKeyArgs, publicKey \in PublicKeyArgs :
          pairs = <<>> /\ NewKeyPair(privateKey, publicKey)
    \/ \E data \in PrivateKeyArgs \ {ArgUndefined} :
          pairs = <<>> /\ FromPrivateKey(data)
    \/ pairs = <<>> /\ Generate(Be32(seed))
    \/ \E k \in 1..Len(pairs), i \in 1..Len(pubs) : SetPublicKey(k, i)

SpecPairs == Init /\ [][NextPairs]_vars

\* ------------------------------------- single calls of the utilities ----

\* Multikey payloads the caller encodes and hands to decode: the fixed
\* prefix or another one before the x-coordinate, and wrong lengths.
PayloadShapes(v) ==
    { BIP340_MULTIKEY_PREFIX \o Be32(v), <<225, 75>> \o Be32(v),
      <<0, 74>> \o Be32(v), <<0, 0>> \o Be32(v), Be32(v),
      (BIP340_MULTIKEY_PREFIX \o Be32(v)) \o <<0>> }

\* The caller makes an array b and calls utils.liftX(b).
CallLiftX(b) ==
    /\ LET r == liftX(b)
           e == FreshCopy(r.val)
       IN  IF r.ok
           THEN /\ heap' = e.heap
                /\ src' = e.src
                /\ ret' = Outcome("liftX", r, e.addr, b, 0)
           ELSE /\ ret' = Outcome("liftX", r, 0, b, 0)
                /\ UNCHANGED <<heap, src>>
    /\ calls' = calls + 1
    /\ UNCHANGED <<seed, pairs, mutated, pubs, privs, ctorArg>>

\* The body of decode() runs on the base58btc text of a payload.
CallDecode(payload) ==
    /\ LET r == decodeMultibase(base58btc_encode(payload))
           e == FreshCopy(r.val)
       IN  IF r.ok
           THEN /\ heap' = e.heap
                /\ src' = e.src
                /\ ret' = Outcome("decode", r, e.addr, payload, 0)
           ELSE /\ ret' = Outcome("decode", r, 0, payload, 0)
                /\ UNCHANGED <<heap, src>>
    /\ calls' = calls + 1
    /\ UNCHANGED <<seed, pairs, mutated, pubs, privs, ctorArg>>

\* The caller calls utils.modPow(base, exp, mod).
CallModPow(base, exp, mod) ==
    /\ ret' = Outcome("modPow", Return(0), modPow(base, exp, mod),
                      <<base, exp, mod>>, 0)
    /\ calls' = calls + 1
    /\ UNCHANGED <<seed, pairs, heap, src, mutated, pubs, privs, ctorArg>>

\* PrivateKeyUtils.toBytes(s): a new array, or the error thrown.
CallToBytes(s) ==
    /\ \E r \in {toBytes(s)} :
          LET e == FreshCopy(r.val)
          IN  IF r.ok
              THEN /\ heap' = e.heap
                   /\ src' = e.src
                   /\ ret' = Outcome("toBytes", r, e.addr, <<>>, s)
              ELSE /\ ret' = Outcome("toBytes", r, 0, <<>>, s)
                   /\ UNCHANGED <<heap, src>>
    /\ calls' = calls + 1
    /\ UNCHANGED <<seed, pairs, mutated, pubs, privs, ctorArg>>

\* PrivateKeyUtils.toSecret(b): a bigint.
CallToSecret(b) ==
    /\ ret' = Outcome("toSecret", Return(0), toSecret(b), b, 0)
    /\ calls' = calls + 1
    /\ UNCHANGED <<seed, pairs, heap, src, mutated, pubs, privs, ctorArg>>

NextUtils ==
    \/ \E b \in KeyShapes(seed) : calls = 0 /\ NewPublicKey(b)
    \/ \E i \in 1..Len(pubs) : calls = 1 /\ GetPubView(i, "pub.decode")
    \/ \E i \in 1..Len(pubs) : calls = 1 /\ GetPubView(i, "pub.prefix")
    \/ \E b \in KeyShapes(seed) : calls = 0 /\ CallLiftX(b)
    \/ \E payload \in PayloadShapes(seed) : calls = 0 /\ CallDecode(payload)
    \/ \E exp \in 0..(MaxSmall + 1) :
          calls = 0 /\ CallModPow(seed, exp, CURVE_p)
    \/ \E s \in SecretShapes(seed) : calls = 0 /\ CallToBytes(s)
    \/ \E b \in {Be32(seed)} : calls = 0 /\ CallToSecret(b)
    \/ calls = 1 /\ ret.op = "toBytes" /\ ret.ok /\ CallToSecret(heap[ret.val])
    \/ calls = 1 /\ ret.op = "toSecret" /\ CallToBytes(ret.val)

InitUtils == seed \in SampleVals /\ Fresh

SpecUtils == InitUtils /\ [][NextUtils]_vars

\* ------------------------------------------------------- properties ----

\* Big-endian unsigned value of a byte array, as the sum of its non-zero
\* bytes, each times its power of 256.
RECURSIVE SumBytes(_, _)
SumBytes(S, bytes) ==
    IF S = {} THEN 0
    ELSE LET i == CHOOSE j \in S : TRUE
         IN  (bytes[i] * (256 ^ (Len(bytes) - i))) + SumBytes(S \ {i}, bytes)

BigEndianValue(bytes) == SumBytes({i \in 1..Len(bytes) : bytes[i] # 0}, bytes)

\* The kind of error an error code stands for.
ErrorKind(code) ==
    CASE code \in {"PRIVATE_KEY_CONSTRUCTOR_ERROR",
                   "PUBLIC_KEY_CONSTRUCTOR_ERROR"} -> "ConstructorError"
      [] code \in {"SET_PRIVATE_KEY_ERROR", "LIFT_X_ERROR"} -> "RangeError"
      [] code = "DECODE_PUBLIC_KEY_ERROR" -> "DecodeError"
      [] code = "ENCODE_PUBLIC_KEY_ERROR" -> "EncodeError"
      [] OTHER -> "Other"

\* C1: every constructed PrivateKey returns 32 bytes from `bytes`, an integer
\* from `secret`, and the secret is the big-endian value of the bytes.
C1_BytesAndSecretAgree ==
    \A i \in 1..Len(privs) :
        LET b == PrivBytes(Priv(i))
            sec == PrivSecret(Priv(i))
        IN  /\ b.ok
            /\ Len(b.val) = KEY_LEN
            /\ sec.ok
            /\ sec.val = BigEndianValue(b.val)

\* C3: new PublicKey(bytes) throws PUBLIC_KEY_CONSTRUCTOR_ERROR and makes no
\* key object when the length of bytes is neither 32 nor 33, and it does not
\* throw when the length is 32 or 33.
C3_PublicKeyLength ==
    [][ret'.op = "PublicKey" =>
          IF Len(ret'.arg) \in {32, 33}
          THEN ret'.ok
          ELSE /\ ~ret'.ok
               /\ ret'.code = "PUBLIC_KEY_CONSTRUCTOR_ERROR"
               /\ pubs' = pubs
               /\ privs' = privs]_vars

C3_Witness ==
    /\ ret.op = "PublicKey"
    /\ Len(ret.arg) = 34
    /\ ~ret.ok
    /\ pubs = <<>>

\* C4: new PrivateKey(bytes) throws PRIVATE_KEY_CONSTRUCTOR_ERROR and makes
\* no key object when the length of bytes is not 32, the empty array
\* included.
C4_PrivateKeyLength ==
    [][(ret'.op = "PrivateKey" /\ Len(ret'.arg) # 32) =>
          /\ ~ret'.ok
          /\ ret'.code = "PRIVATE_KEY_CONSTRUCTOR_ERROR"
          /\ pubs' = pubs
          /\ privs' = privs]_vars

C4_Witness ==
    /\ ret.op = "PrivateKey"
    /\ ret.arg = <<>>
    /\ ~ret.ok
    /\ privs = <<>>

\* C5, as claimed: new PrivateKey(s) with a secret s < 1 or s >= n throws an
\* error of the RangeError kind.
C5_SecretRangeError ==
    (ret.op = "PrivateKeySecret" /\ (ret.sec < 1 \/ ret.sec >= CURVE_n)) =>
        (~ret.ok /\ ErrorKind(ret.code) = "RangeError")

\* C5, amended: new PrivateKey(s) with a secret s < 1 or s >= n throws
\* PRIVATE_KEY_CONSTRUCTOR_ERROR, an error of the ConstructorError kind, and
\* makes no key object.
C5_SecretConstructorError ==
    [][(ret'.op = "PrivateKeySecret"
            /\ (ret'.sec < 1 \/ ret'.sec >= CURVE_n)) =>
          /\ ~ret'.ok
          /\ ret'.code = "PRIVATE_KEY_CONSTRUCTOR_ERROR"
          /\ ErrorKind(ret'.code) = "ConstructorError"
          /\ pubs' = pubs
          /\ privs' = privs]_vars

C5_Witness ==
    /\ ret.op = "PrivateKeySecret"
    /\ ret.sec >= CURVE_n
    /\ ~ret.ok
    /\ privs = <<>>

C6_SameKeyFromBothForms ==
    \A i, j \in 1..Len(pubs) :
        LET xArg == heap[ctorArg.pub[i]]
            cArg == heap[ctorArg.pub[j]]
        IN  (mutated = {} /\ Len(xArg) = 32 /\ cArg = <<2>> \o xArg) =>
               /\ PubBytes(Pub(i)) = PubBytes(Pub(j))
               /\ Len(PubBytes(Pub(i))) = 33
               /\ PubEquals(Pub(i), Pub(j))
               /\ PubEquals(Pub(j), Pub(i))

C6_Witness ==
    \E i, j \in 1..Len(pubs) :
        /\ mutated = {}
        /\ Len(heap[ctorArg.pub[i]]) = 32
        /\ heap[ctorArg.pub[j]] = <<2>> \o heap[ctorArg.pub[i]]
        /\ PubEquals(Pub(i), Pub(j))

\* base ** exp modulo mod by repeated multiplication, where 0n ** 0n is 1n.
RECURSIVE PowerMod(_, _, _)
PowerMod(base, exp, mod) ==
    IF exp = 0 THEN 1 % mod ELSE (base * PowerMod(base, exp - 1, mod)) % mod

\* a is a square modulo the field prime.
IsSquare(a) == \E r \in 0..(CURVE_p - 1) : (r * r) % CURVE_p = a

\* C7: liftX throws LIFT_X_ERROR and returns no point exactly when its
\* argument is not 32 bytes long or its value x is 0 or x >= p.
C7_LiftXRange ==
    ret.op = "liftX" =>
        LET bad == \/ Len(ret.arg) # 32
                   \/ BigEndianValue(ret.arg) = 0
                   \/ BigEndianValue(ret.arg) >= CURVE_p
        IN  /\ ret.ok <=> ~bad
            /\ ~ret.ok => (ret.code = "LIFT_X_ERROR" /\ ret.val = 0)
            /\ ~ret.ok => ErrorKind(ret.code) = "RangeError"

C7_Witness ==
    /\ ret.op = "liftX"
    /\ Len(ret.arg) = 32
    /\ BigEndianValue(ret.arg) = CURVE_p
    /\ ~ret.ok

C7_WitnessInRange ==
    /\ ret.op = "liftX"
    /\ Len(ret.arg) = 32
    /\ BigEndianValue(ret.arg) = CURVE_p - 1
    /\ ret.ok

\* C8: for a 32-byte x with 0 < x < p and x^3 + 7 a square mod p, liftX
\* returns the 65 bytes 0x04 || x || y where y^2 = x^3 + 7 (mod p) and y is
\* (x^3 + 7)^((p+1)/4) mod p, the one square root that is itself a square;
\* and modPow(base, exp, p) is base^exp mod p.
C8_LiftXPoint ==
    /\ (/\ ret.op = "liftX"
        /\ Len(ret.arg) = 32
        /\ BigEndianValue(ret.arg) > 0
        /\ BigEndianValue(ret.arg) < CURVE_p
        /\ IsSquare(((BigEndianValue(ret.arg) ^ 3) + 7) % CURVE_p)) =>
          LET x == BigEndianValue(ret.arg)
              point == heap[ret.val]
              y == BigEndianValue(SubSeq(point, 34, 65))
          IN  /\ ret.ok
              /\ Len(point) = 65
              /\ point[1] = 4
              /\ SubSeq(point, 2, 33) = ret.arg
              /\ y < CURVE_p
              /\ (y * y) % CURVE_p = ((x ^ 3) + 7) % CURVE_p
              /\ IsSquare(y)
    /\ ret.op = "modPow" =>
          ret.val = PowerMod(ret.arg[1], ret.arg[2], ret.arg[3])

C8_Witness ==
    /\ ret.op = "liftX"
    /\ ret.ok
    /\ BigEndianValue(ret.arg) = 256
    /\ IsSquare(((256 ^ 3) + 7) % CURVE_p)
    /\ BigEndianValue(SubSeq(heap[ret.val], 34, 65)) = 789

\* C9: decoding a 34-byte payload whose first two bytes do not hash to the
\* expected prefix digest throws DECODE_PUBLIC_KEY_ERROR and returns no
\* buffer, whatever the other 32 bytes are.
C9_DecodeBadPrefix ==
    (/\ ret.op = "decode"
     /\ Len(ret.arg) = 34
     /\ DigestHex(sha256(SubSeq(ret.arg, 1, 2))) # BIP340_MULTIKEY_PREFIX_HASH)
        => /\ ~ret.ok
           /\ ret.code = "DECODE_PUBLIC_KEY_ERROR"
           /\ ret.val = 0
           /\ heap = <<>>

C9_Witness ==
    /\ ret.op = "decode"
    /\ ret.arg = <<225, 75>> \o Be32(1)
    /\ ~ret.ok

\* What a caller can observe of the keys while the arrays hold what heap h
\* says: every byte view, hex() and equals().
KeyViews(h) ==
    [pub |-> [i \in 1..Len(pubs) |->
                 LET this == PubThis(h, pubs[i]) IN
                 [bytes |-> PubBytes(this), x |-> PubX(this),
                  y |-> PubY(this), uncompressed |-> PubUncompressed(this),
                  hex |-> PubHex(this)]],
     priv |-> [i \in 1..Len(privs) |->
                 LET this == PrivThis(h, privs[i]) IN
                 [bytes |-> PrivBytes(this), hex |-> PrivHex(this)]],
     eq |-> [i \in 1..Len(pubs) |->
               [j \in 1..Len(pubs) |->
                   PubEquals(PubThis(h, pubs[i]), PubThis(h, pubs[j]))]]]

\* C10: a write into an array that a getter returned changes no getter
\* result, hex() or equals() of any key.
C10_DefensiveCopies ==
    LET before == KeyViews(heap) IN
    \A a \in 1..Len(heap) :
        (src[a] = "getter" /\ heap[a] # <<>>) =>
            KeyViews(WriteByte(heap, a)) = before

C10_Witness ==
    \E a \in mutated :
        /\ src[a] = "getter"
        /\ ret.op \in {"pub.bytes", "priv.bytes"}
        /\ ret.val = a
        /\ IF ret.op = "pub.bytes"
           THEN heap[a] # PubBytes(Pub(ret.sec))
           ELSE heap[a] # PrivBytes(Priv(ret.sec)).val

\* The KeyPair that the last call constructed.
NewPair == pairs[ret.val]

\* The last call was new KeyPair(...) and returned.
KeyPairConstructed == ret.op = "KeyPair" /\ ret.ok

\* C11: new KeyPair with neither a private key nor a public key throws the
\* KeyPair constructor error, and no KeyPair and no key comes of it.
C11_NeitherKeyFails ==
    [][(/\ ret'.op = "KeyPair"
        /\ ret'.arg[1].k = "undefined"
        /\ ret'.arg[2].k = "undefined")
       => /\ ~ret'.ok
          /\ ret'.code = "KEYPAIR_CONSTRUCTOR_ERROR"
          /\ pairs' = pairs
          /\ privs' = privs
          /\ pubs' = pubs]_vars

C11_Witness ==
    /\ ret.op = "KeyPair"
    /\ ret.arg = <<ArgUndefined, ArgUndefined>>
    /\ ret.code = "KEYPAIR_CONSTRUCTOR_ERROR"
    /\ pairs = <<>>

Normalized(b) == IF Len(b) = KEY_LEN THEN <<2>> \o b ELSE b

\* C13: after a successful new KeyPair, whatever was passed, the publicKey
\* getter returns a PublicKey object, and when a public key was passed as
\* raw bytes, its bytes are the 33-byte normalized form of those bytes.
C13_HoldsAPublicKey ==
    KeyPairConstructed
    => /\ PairPublicKey(NewPair).k = "PublicKey"
       /\ PairPublicKeyBytes(heap, NewPair).code # "undefined"
       /\ Len(PairPublicKeyBytes(heap, NewPair).val) = COMPRESSED_LEN
       /\ ret.arg[2].k = "bytes" =>
              PairPublicKeyBytes(heap, NewPair).val = Normalized(ret.arg[2].b)

\* C14: the prefix getter of every PublicKey returns the two bytes of the
\* multikey prefix.
C14_PrefixIsTwoBytes ==
    ret.op = "pub.prefix"
    => /\ ret.ok
       /\ heap[ret.val] = BIP340_MULTIKEY_PREFIX

\* The last call was new KeyPair({ privateKey: b }) with 32 bytes b and it
\* returned.
KeyPairFromBytesOnly ==
    /\ KeyPairConstructed
    /\ ret.arg[1].k = "bytes"
    /\ Len(ret.arg[1].b) = KEY_LEN
    /\ ret.arg[2].k = "undefined"

ScalarOf(o) ==
    IF IsArray(o._bytes) THEN BigEndianValue(heap[o._bytes.a]) ELSE o._bytes.v

\* C16: every PrivateKey object there is, however it was obtained, holds a
\* scalar d with 1 <= d < n, and fromSecret of a secret that is zero,
\* negative or not below n returns no key.
C16_ScalarInRange ==
    /\ \A i \in 1..Len(privs) :
           /\ ScalarOf(privs[i]) >= 1
           /\ ScalarOf(privs[i]) < CURVE_n
    /\ (ret.op = "fromSecret" /\ (ret.sec < 1 \/ ret.sec >= CURVE_n))
           => ~ret.ok

\* C17: the bytes of every PublicKey object are 33 long and start with the
\* parity byte 2 or 3.
C17_ParityByte ==
    \A i \in 1..Len(pubs) :
        /\ Len(PubBytes(Pub(i))) = COMPRESSED_LEN
        /\ PubParity(Pub(i)) \in {2, 3}

\* C18: the x-coordinate of every PublicKey object is in [1, p-1] and on the
\* curve; uncompressed and y return a point (x, y) with y^2 = x^3 + 7 mod p.
C18_PointOnCurve ==
    \A i \in 1..Len(pubs) :
        LET x == BigEndianValue(PubX(Pub(i)))
            u == PubUncompressed(Pub(i))
            y == BigEndianValue(PubY(Pub(i)).val)
        IN  /\ x >= 1
            /\ x < CURVE_p
            /\ IsSquare(((x ^ 3) + CURVE_b) % CURVE_p)
            /\ u.ok
            /\ PubY(Pub(i)).ok
            /\ SubSeq(u.val, 2, COMPRESSED_LEN) = PubX(Pub(i))
            /\ (y * y) % CURVE_p = ((x ^ 3) + CURVE_b) % CURVE_p

\* C19: a write into an array that the caller passed to a constructor
\* changes no getter result, hex() or equals() of any key.
C19_InputNotShared ==
    LET before == KeyViews(heap) IN
    \A a \in 1..Len(heap) :
        (src[a] = "input" /\ heap[a] # <<>>) =>
            KeyViews(WriteByte(heap, a)) = before

\* C20: in every KeyPair that holds a PublicKey object and a private key
\* whose computePublicKey() returns, the public key is the one that
\* computePublicKey() yields.
C20_ValidPair ==
    \A k \in 1..Len(pairs) :
        (/\ pairs[k]._privateKey.k = "PrivateKey"
         /\ pairs[k]._publicKey.k = "PublicKey"
         /\ PairComputedPublicKey(heap, pairs[k]).ok)
        => PairPublicKeyBytes(heap, pairs[k])
               = PairComputedPublicKey(heap, pairs[k])

\* s is a valid private scalar.
ValidScalar(s) == s >= 1 /\ s < CURVE_n

\* bytes is the 32-byte big-endian encoding of s.
Encodes(bytes, s) == Len(bytes) = KEY_LEN /\ BigEndianValue(bytes) = s

\* C21: toBytes(s) returns the 32-byte big-endian encoding of s when
\* 1 <= s < n, and throws SET_PRIVATE_KEY_ERROR and returns no array when
\* the 32 bytes it makes of s are not a valid private scalar; toSecret of a
\* 32-byte array is its big-endian value; toSecret(toBytes(s)) = s for
\* 1 <= s < n, and toBytes(toSecret(b)) = b for 32-byte b of value in
\* [1, n-1].
C21_ExactInverses ==
    /\ [](ret.op = "toBytes" =>
             /\ ret.ok <=> ValidScalar(ret.sec)
             /\ ret.ok => Encodes(heap[ret.val], ret.sec)
             /\ ~ret.ok => /\ ret.code = "SET_PRIVATE_KEY_ERROR"
                           /\ ret.val = 0
                           /\ ErrorKind(ret.code) = "RangeError")
    /\ []((ret.op = "toSecret" /\ Len(ret.arg) = KEY_LEN) =>
             ret.val = BigEndianValue(ret.arg))
    /\ [][(/\ ret.op = "toBytes"
           /\ ValidScalar(ret.sec)
           /\ ret'.op = "toSecret")
          => /\ ret.ok
             /\ ret'.arg = heap[ret.val]
             /\ ret'.val = ret.sec]_vars
    /\ [][(/\ ret.op = "toSecret"
           /\ Len(ret.arg) = KEY_LEN
           /\ ValidScalar(BigEndianValue(ret.arg))
           /\ ret'.op = "toBytes")
          => /\ ret'.sec = ret.val
             /\ ret'.ok
             /\ heap'[ret'.val] = ret.arg]_vars

\* toBytes has encoded the largest valid scalar and toSecret has read the
\* scalar back from the array that toBytes returned.
C21_Witness ==
    /\ seed = CURVE_n - 1
    /\ calls = 2
    /\ ret.op = "toSecret"
    /\ ret.arg = Be32(CURVE_n - 1)
    /\ ret.val = CURVE_n - 1
    /\ \E a \in 1..Len(heap) : heap[a] = ret.arg

====
